---------------------------- MODULE Spec2Model ----------------------------
(***************************************************************************)
(* Model of the buffered asynchronous robot connection                     *)
(* (client/lib/connection/Connection.js).                                  *)
(*                                                                         *)
(* The Connection base class is modelled method by method.  Every method   *)
(* is an operator from an object (a record of the fields plus the listener *)
(* calls made and the outcome so far) to the object it leaves behind, so   *)
(* that a caller which makes several calls in one event-loop turn is one   *)
(* atomic action.  JavaScript values are tagged records.                   *)
(***************************************************************************)
EXTENDS Integers, Sequences, FiniteSets, TLC

VARIABLES
    state,            \* this.state
    enabled,          \* this.enabled
    lastError,        \* this.lastError
    pingTimeMs,       \* this.pingTimeMs
    onstatechange,    \* this.onstatechange
    onresponsedata,   \* this.onresponsedata
    responseData,     \* this.responseData
    dataPacket,       \* this.dataPacket
    notified,         \* listener invocations made by the latest operation
    lastStateEvent,   \* latest notification the registered onstatechange got
    lastOp,           \* the latest operation: name, arguments, outcome
    lastData,         \* argument of the latest setRobotData call that returned
    lastStored,       \* argument of the latest setResponseData call
    inflight,         \* transport cycles begun and not yet resolved
    nextId,           \* sequence number of the next transport cycle
    latestDone,       \* highest sequence number whose result was reported
    slider,           \* the Slider control: its fields
    stickyUsed,       \* some setTouch call found the slider sticky
    valueAtRelease    \* slider value when the latest release arrived

fields == <<state, enabled, lastError, pingTimeMs, onstatechange,
            onresponsedata, responseData, dataPacket>>

connectionVars == <<state, enabled, lastError, pingTimeMs, onstatechange,
                    onresponsedata, responseData, dataPacket, notified,
                    lastStateEvent, lastOp, lastData, lastStored, inflight,
                    nextId, latestDone>>

sliderVars == <<slider, stickyUsed, valueAtRelease>>

vars == <<connectionVars, sliderVars>>

----------------------------------------------------------------------------
(* JavaScript values                                                       *)

JsNull == [type |-> "null"]

JsUndefined == [type |-> "undefined"]

JsString(s) == [type |-> "string", str |-> s]

JsNumber(n) == [type |-> "number", num |-> n]

\* A plain object: its own enumerable properties in insertion order, each
\* <<key, number>>; cyclic when it refers to itself.
JsObject(props, cyclic) == [type |-> "object", props |-> props, cyclic |-> cyclic]

JsFunction == [type |-> "function"]

JsError(msg) == [type |-> "error", message |-> msg]

\* No setRobotData call has returned yet.
NoCall == [type |-> "none"]

\* typeof v
typeof(v) ==
    CASE v.type = "null" -> "object"
      [] v.type = "error" -> "object"
      [] OTHER -> v.type

\* !v
Falsy(v) ==
    \/ v.type \in {"null", "undefined"}
    \/ v.type = "string" /\ v.str = ""
    \/ v.type = "number" /\ v.num = 0

RECURSIVE StringifyProps(_)
StringifyProps(props) ==
    IF props = <<>> THEN ""
    ELSE LET p == Head(props)
             member == "\"" \o p[1] \o "\":" \o ToString(p[2])
         IN  IF Tail(props) = <<>> THEN member
             ELSE member \o "," \o StringifyProps(Tail(props))

\* JSON.stringify(v): the value it returns, or the error it throws.
JSONstringify(v) ==
    CASE v.type = "string" -> [threw |-> FALSE, value |-> JsString("\"" \o v.str \o "\"")]
      [] v.type = "number" -> [threw |-> FALSE, value |-> JsString(ToString(v.num))]
      [] v.type = "null" -> [threw |-> FALSE, value |-> JsString("null")]
      [] v.type = "object" /\ v.cyclic -> [threw |-> TRUE, value |-> JsError("TypeError")]
      [] v.type = "object" /\ ~v.cyclic ->
            [threw |-> FALSE, value |-> JsString("{" \o StringifyProps(v.props) \o "}")]
      [] OTHER -> [threw |-> FALSE, value |-> JsUndefined]

----------------------------------------------------------------------------
(* Connection                                                              *)

CONNECTED == "Connected"

CONNECTING == "Connecting"

DISCONNECTED == "Disconnected"

ERROR == "Error"

States == {CONNECTED, CONNECTING, DISCONNECTED, ERROR}

\* The object a method starts from: the fields, no listener called yet.
this ==
    [state |-> state, enabled |-> enabled, lastError |-> lastError,
     pingTimeMs |-> pingTimeMs, onstatechange |-> onstatechange,
     onresponsedata |-> onresponsedata, responseData |-> responseData,
     dataPacket |-> dataPacket,
     calls |-> <<>>, returned |-> JsUndefined, thrown |-> JsNull]

\* A listener invocation, with what the listener can read of the connection
\* while it runs.
Call(o, fn, args) ==
    [fn |-> fn, args |-> args,
     seen |-> [state |-> o.state, responseData |-> o.responseData,
               pingTimeMs |-> o.pingTimeMs, lastError |-> o.lastError]]

Invoke(o, fn, args) == [o EXCEPT !.calls = Append(@, Call(o, fn, args))]

start(o) == [o EXCEPT !.enabled = TRUE]

\* stop that flips the flag instead of clearing it.
stop_toggle(o) == [o EXCEPT !.enabled = ~@]

stop(o) == [o EXCEPT !.enabled = FALSE]

\* setState without its early return: a report of the current state is
\* treated as a change.
setState_noEarlyReturn(o, newState) ==
    LET oldState == o.state
        o1 == [o EXCEPT !.state = newState]
    IN  IF typeof(o1.onstatechange) = "function"
        THEN Invoke(o1, "onstatechange", <<JsString(newState), JsString(oldState)>>)
        ELSE o1


\* setState that passes the listener its arguments in the wrong order.
setState_swappedArguments(o, newState) ==
    IF newState = o.state THEN o
    ELSE LET oldState == o.state
             o1 == [o EXCEPT !.state = newState]
         IN  IF typeof(o1.onstatechange) = "function"
             THEN Invoke(o1, "onstatechange", <<JsString(oldState), JsString(newState)>>)
             ELSE o1

setState(o, newState) ==
    IF newState = o.state THEN o
    ELSE LET oldState == o.state
             o1 == [o EXCEPT !.state = newState]
         IN  IF typeof(o1.onstatechange) = "function"
             THEN Invoke(o1, "onstatechange", <<JsString(newState), JsString(oldState)>>)
             ELSE o1

\* setRobotData that fills the buffer only when it is empty: a value not yet
\* replaced stays in front of the later ones.
setRobotData_keepsPending(o, data) ==
    IF o.dataPacket # JsNull THEN o
    ELSE IF typeof(data) = "string" THEN [o EXCEPT !.dataPacket = data]
    ELSE LET json == JSONstringify(data)
         IN  IF json.threw THEN [o EXCEPT !.thrown = json.value]
             ELSE [o EXCEPT !.dataPacket = json.value]


\* setRobotData that catches the serialization error and returns normally.
setRobotData_swallowsError(o, data) ==
    IF typeof(data) = "string" THEN [o EXCEPT !.dataPacket = data]
    ELSE LET json == JSONstringify(data)
         IN  IF json.threw THEN o
             ELSE [o EXCEPT !.dataPacket = json.value]

\* setRobotData without the typeof test: a string is serialized too.
setRobotData_alwaysStringify(o, data) ==
    LET json == JSONstringify(data)
    IN  IF json.threw THEN [o EXCEPT !.thrown = json.value]
        ELSE [o EXCEPT !.dataPacket = json.value]


\* setRobotData that assigns the inbound field for the outbound one.
setRobotData_wrongField(o, data) ==
    IF typeof(data) = "string" THEN [o EXCEPT !.responseData = data]
    ELSE LET json == JSONstringify(data)
         IN  IF json.threw THEN [o EXCEPT !.thrown = json.value]
             ELSE [o EXCEPT !.responseData = json.value]

setRobotData(o, data) ==
    IF typeof(data) = "string" THEN [o EXCEPT !.dataPacket = data]
    ELSE LET json == JSONstringify(data)
         IN  IF json.threw THEN [o EXCEPT !.thrown = json.value]
             ELSE [o EXCEPT !.dataPacket = json.value]


\* getResponseData that returns the outbound packet.
getResponseData_returnsPacket(o) == [o EXCEPT !.returned = o.dataPacket]

getResponseData(o) == [o EXCEPT !.returned = o.responseData]

\* setResponseData with the test inverted: "if (data)" for "if (!data)".
setResponseData_invertedTest(o, data) ==
    LET o1 == [o EXCEPT !.responseData = data]
        o2 == IF ~Falsy(data) THEN [o1 EXCEPT !.pingTimeMs = JsNull] ELSE o1
    IN  IF typeof(o2.onresponsedata) = "function"
        THEN Invoke(o2, "onresponsedata", <<data>>)
        ELSE o2

\* setResponseData that never resets pingTimeMs.
setResponseData_keepsPing(o, data) ==
    LET o1 == [o EXCEPT !.responseData = data]
    IN  IF typeof(o1.onresponsedata) = "function"
        THEN Invoke(o1, "onresponsedata", <<data>>)
        ELSE o1

\* setResponseData that calls the listener before it stores anything.
setResponseData_notifiesFirst(o, data) ==
    LET o0 == IF typeof(o.onresponsedata) = "function"
              THEN Invoke(o, "onresponsedata", <<data>>)
              ELSE o
        o1 == [o0 EXCEPT !.responseData = data]
    IN  IF Falsy(data) THEN [o1 EXCEPT !.pingTimeMs = JsNull] ELSE o1

\* setResponseData that treats a repeated value as no change, as setState
\* does for a repeated state.
setResponseData_dedup(o, data) ==
    IF data = o.responseData THEN o
    ELSE LET o1 == [o EXCEPT !.responseData = data]
             o2 == IF Falsy(data) THEN [o1 EXCEPT !.pingTimeMs = JsNull] ELSE o1
         IN  IF typeof(o2.onresponsedata) = "function"
             THEN Invoke(o2, "onresponsedata", <<data>>)
             ELSE o2

setResponseData(o, data) ==
    LET o1 == [o EXCEPT !.responseData = data]
        o2 == IF Falsy(data) THEN [o1 EXCEPT !.pingTimeMs = JsNull] ELSE o1
    IN  IF typeof(o2.onresponsedata) = "function"
        THEN Invoke(o2, "onresponsedata", <<data>>)
        ELSE o2

----------------------------------------------------------------------------
(* Transport driver: the callers of the private methods                    *)

\* A completed exchange: the link is live, the latency is recorded, the
\* payload is handed over.
reportExchangeResult(o, value, latencyMs) ==
    LET o1 == setState(o, CONNECTED)
        o2 == [o1 EXCEPT !.pingTimeMs = JsNumber(latencyMs)]
    IN  setResponseData(o2, value)

\* A failed exchange: the cause is recorded, the state is Error.
reportFailure(o, error) ==
    LET o1 == [o EXCEPT !.lastError = error]
    IN  setState(o1, ERROR)

----------------------------------------------------------------------------
(* Slider                                                                  *)

\* The slider value is a fraction of the slider length: numbers are exact
\* rationals num/den with den > 0, in lowest terms.
RECURSIVE Gcd(_, _)
Gcd(a, b) == IF b = 0 THEN a ELSE Gcd(b, a % b)

Abs(n) == IF n < 0 THEN -n ELSE n

\* n / d for d > 0.
Divide(n, d) ==
    LET g == Gcd(Abs(n), d)
    IN  [num |-> n \div g, den |-> d \div g]

Zero == Divide(0, 1)

One == Divide(1, 1)

Less(a, b) == a.num * b.den < b.num * a.den

\* utils.constrain: the value clamped into [min, max].
constrain(v, min, max) ==
    IF Less(v, min) THEN min ELSE IF Less(max, v) THEN max ELSE v

HORIZONTAL == "Horizontal"
VERTICAL == "Vertical"

\* A browser Touch, as far as the slider reads it.
Touch(clientX, clientY) ==
    [type |-> "object", clientX |-> clientX, clientY |-> clientY]

\* Control.setTouch: the control keeps the touch it tracks.
Control_setTouch(o, touch) == [o EXCEPT !.touch = touch]

getDimensions(o) ==
    [x |-> o.position.x, y |-> o.position.y, r |-> o.radius, l |-> o.length]

\* Control.getPixelDimensions: numeric dimensions are pixels already.
getPixelDimensions(o) == getDimensions(o)

getHelperDimensions(o) ==
    LET d == getPixelDimensions(o)
    IN  IF o.type = HORIZONTAL
        THEN [x |-> d.x, x1 |-> d.x, x2 |-> d.x + d.l, xa |-> d.x + d.l,
              y |-> d.y, y1 |-> d.y - d.r, y2 |-> d.y + d.r, ya |-> d.y,
              r |-> d.r, l |-> d.l]
        ELSE [x |-> d.x, x1 |-> d.x - d.r, x2 |-> d.x + d.r, xa |-> d.x,
              y |-> d.y, y1 |-> d.y, y2 |-> d.y + d.l, ya |-> d.y + d.l,
              r |-> d.r, l |-> d.l]

\* setTouch with the sticky test inverted: "else if (this.sticky)".
setTouch_invertedSticky(o, touch) ==
    LET o1 == Control_setTouch(o, touch)
    IN  IF ~Falsy(touch)
        THEN LET d == getHelperDimensions(o1)
             IN  IF o1.type = HORIZONTAL
                 THEN [o1 EXCEPT !.value =
                          constrain(Divide(d.xa - touch.clientX, d.l), Zero, One)]
                 ELSE [o1 EXCEPT !.value =
                          constrain(Divide(d.ya - touch.clientY, d.l), Zero, One)]
        ELSE IF o1.sticky THEN [o1 EXCEPT !.value = Zero]
        ELSE o1

setTouch(o, touch) ==
    LET o1 == Control_setTouch(o, touch)
    IN  IF ~Falsy(touch)
        THEN LET d == getHelperDimensions(o1)
             IN  IF o1.type = HORIZONTAL
                 THEN [o1 EXCEPT !.value =
                          constrain(Divide(d.xa - touch.clientX, d.l), Zero, One)]
                 ELSE [o1 EXCEPT !.value =
                          constrain(Divide(d.ya - touch.clientY, d.l), Zero, One)]
        ELSE IF ~o1.sticky THEN [o1 EXCEPT !.value = Zero]
        ELSE o1

----------------------------------------------------------------------------
(* Inputs                                                                  *)

RobotInputs ==
    { JsString("10"),
      JsObject(<< <<"x", 1>> >>, FALSE),
      JsUndefined,
      JsObject(<<>>, TRUE) }

Payloads == { JsNull, JsString(""), JsString("A"), JsString("B") }

Latencies == { 7, 42 }

Errors == { JsError("timeout") }

Listeners == { JsNull, JsFunction }

MaxCycles == 3

MaxInFlight == 2

\* Touch points before, on and past the slider, along either axis.
Touches == { Touch(x, y) : x \in {-5, 20, 45, 90}, y \in {-5, 10, 40, 90} }

NoTouches == { JsNull, JsUndefined }

Positions == { [x |-> 0, y |-> 0], [x |-> 20, y |-> 20] }

Lengths == { 30, 60 }

Types == { HORIZONTAL, VERTICAL }

----------------------------------------------------------------------------
(* Actions                                                                 *)

StateEvents(calls) == SelectSeq(calls, LAMBDA c : c.fn = "onstatechange")

ResponseEvents(calls) == SelectSeq(calls, LAMBDA c : c.fn = "onresponsedata")

\* The fields and the observations an operation leaves behind.
Commit(o, name, args) ==
    /\ state' = o.state
    /\ enabled' = o.enabled
    /\ lastError' = o.lastError
    /\ pingTimeMs' = o.pingTimeMs
    /\ onstatechange' = o.onstatechange
    /\ onresponsedata' = o.onresponsedata
    /\ responseData' = o.responseData
    /\ dataPacket' = o.dataPacket
    /\ notified' = o.calls
    /\ lastStateEvent' =
          IF StateEvents(o.calls) # <<>>
          THEN StateEvents(o.calls)[Len(StateEvents(o.calls))].args
          ELSE IF name = "onstatechange=" THEN <<>> ELSE lastStateEvent
    /\ lastOp' = [name |-> name, args |-> args,
                  returned |-> o.returned, thrown |-> o.thrown]
    /\ lastData' = IF name = "setRobotData" /\ o.thrown = JsNull
                   THEN args[1] ELSE lastData
    /\ lastStored' =
          CASE name \in {"setResponseData", "reportExchangeResult"} -> args[1]
            [] name = "cycleSucceeds" -> args[3]
            [] OTHER -> lastStored
    /\ UNCHANGED sliderVars

Init ==
    /\ state = DISCONNECTED
    /\ enabled = FALSE
    /\ lastError = JsNull
    /\ pingTimeMs = JsNull
    /\ onstatechange = JsNull
    /\ onresponsedata = JsNull
    /\ responseData = JsNull
    /\ dataPacket = JsNull
    /\ notified = <<>>
    /\ lastStateEvent = <<>>
    /\ lastOp = [name |-> "constructor", args |-> <<>>,
                 returned |-> JsUndefined, thrown |-> JsNull]
    /\ lastData = NoCall
    /\ lastStored = JsNull
    /\ inflight = {}
    /\ nextId = 1
    /\ latestDone = 0
    /\ slider = [position |-> [x |-> 0, y |-> 0], radius |-> 10,
                 length |-> 30, type |-> VERTICAL, sticky |-> TRUE,
                 value |-> Zero, touch |-> JsNull]
    /\ stickyUsed = FALSE
    /\ valueAtRelease = Zero

Start ==
    /\ Commit(start(this), "start", <<>>)
    /\ UNCHANGED <<inflight, nextId, latestDone>>

Stop ==
    /\ Commit(stop(this), "stop", <<>>)
    /\ inflight' = { [c EXCEPT !.stale = TRUE] : c \in inflight }
    /\ UNCHANGED <<nextId, latestDone>>

SetState(newState) ==
    /\ Commit(setState(this, newState), "setState", <<JsString(newState)>>)
    /\ UNCHANGED <<inflight, nextId, latestDone>>

SetRobotData(data) ==
    /\ Commit(setRobotData(this, data), "setRobotData", <<data>>)
    /\ UNCHANGED <<inflight, nextId, latestDone>>

GetResponseData ==
    /\ Commit(getResponseData(this), "getResponseData", <<>>)
    /\ UNCHANGED <<inflight, nextId, latestDone>>

SetResponseData(data) ==
    /\ Commit(setResponseData(this, data), "setResponseData", <<data>>)
    /\ UNCHANGED <<inflight, nextId, latestDone>>

\* connection.onstatechange = f
SetOnStateChange(f) ==
    /\ f # onstatechange
    /\ Commit([this EXCEPT !.onstatechange = f], "onstatechange=", <<f>>)
    /\ UNCHANGED <<inflight, nextId, latestDone>>

\* connection.onresponsedata = f
SetOnResponseData(f) ==
    /\ f # onresponsedata
    /\ Commit([this EXCEPT !.onresponsedata = f], "onresponsedata=", <<f>>)
    /\ UNCHANGED <<inflight, nextId, latestDone>>

ReportExchangeResult(value, latencyMs) ==
    /\ Commit(reportExchangeResult(this, value, latencyMs),
              "reportExchangeResult", <<value, JsNumber(latencyMs)>>)
    /\ UNCHANGED <<inflight, nextId, latestDone>>

ReportFailure(error) ==
    /\ Commit(reportFailure(this, error), "reportFailure", <<error>>)
    /\ UNCHANGED <<inflight, nextId, latestDone>>

\* A polling cycle begins on an enabled connection: it reads the outbound
\* buffer and sends it.
BeginCycle ==
    /\ enabled
    /\ nextId <= MaxCycles
    /\ Cardinality(inflight) < MaxInFlight
    /\ Commit(this, "beginCycle", <<dataPacket>>)
    /\ inflight' = inflight \cup {[id |-> nextId, sent |-> dataPacket, stale |-> FALSE]}
    /\ nextId' = nextId + 1
    /\ UNCHANGED latestDone

\* The robot's answer to the request of cycle c.
Response(c) == JsString("r" \o ToString(c.id))

\* The exchange of cycle c completes after latencyMs.
CycleSucceeds(c, latencyMs) ==
    /\ c \in inflight
    /\ Commit(reportExchangeResult(this, Response(c), latencyMs),
              "cycleSucceeds", <<JsNumber(c.id), JsNumber(latencyMs), Response(c)>>)
    /\ inflight' = inflight \ {c}
    /\ latestDone' = IF c.id > latestDone THEN c.id ELSE latestDone
    /\ UNCHANGED nextId

\* The exchange of cycle c fails.
CycleFails(c, error) ==
    /\ c \in inflight
    /\ Commit(reportFailure(this, error), "cycleFails", <<JsNumber(c.id), error>>)
    /\ inflight' = inflight \ {c}
    /\ UNCHANGED <<nextId, latestDone>>

Next ==
    \/ Start
    \/ Stop
    \/ \E s \in States : SetState(s)
    \/ \E d \in RobotInputs : SetRobotData(d)
    \/ GetResponseData
    \/ \E d \in Payloads : SetResponseData(d)
    \/ \E f \in Listeners : SetOnStateChange(f)
    \/ \E f \in Listeners : SetOnResponseData(f)
    \/ \E v \in Payloads, l \in Latencies : ReportExchangeResult(v, l)
    \/ \E e \in Errors : ReportFailure(e)

Spec == Init /\ [][Next]_vars

\* The polling driver at work: cycles overlap and resolve in any order.
NextCycles ==
    \/ Start
    \/ Stop
    \/ \E f \in Listeners : SetOnStateChange(f)
    \/ \E f \in Listeners : SetOnResponseData(f)
    \/ BeginCycle
    \/ \E c \in inflight, l \in Latencies : CycleSucceeds(c, l)
    \/ \E c \in inflight, e \in Errors : CycleFails(c, e)

SpecCycles == Init /\ [][NextCycles]_vars

\* The producer writes the outbound buffer between the cycles that read it.
NextCoalesce ==
    \/ Start
    \/ Stop
    \/ \E d \in RobotInputs : SetRobotData(d)
    \/ BeginCycle
    \/ \E c \in inflight, l \in Latencies : CycleSucceeds(c, l)

SpecCoalesce == Init /\ [][NextCoalesce]_vars

----------------------------------------------------------------------------
(* Slider actions                                                          *)

SetPosition(p) ==
    /\ slider' = [slider EXCEPT !.position = p]
    /\ UNCHANGED <<connectionVars, stickyUsed, valueAtRelease>>

SetLength(l) ==
    /\ slider' = [slider EXCEPT !.length = l]
    /\ UNCHANGED <<connectionVars, stickyUsed, valueAtRelease>>

SetType(t) ==
    /\ slider' = [slider EXCEPT !.type = t]
    /\ UNCHANGED <<connectionVars, stickyUsed, valueAtRelease>>

SetSticky(b) ==
    /\ slider' = [slider EXCEPT !.sticky = b]
    /\ UNCHANGED <<connectionVars, stickyUsed, valueAtRelease>>

\* The framework reports a touch the slider tracks, or its release.
SetTouch(touch) ==
    /\ slider' = setTouch(slider, touch)
    /\ stickyUsed' = (stickyUsed \/ slider.sticky)
    /\ valueAtRelease' = IF Falsy(touch) THEN slider.value ELSE valueAtRelease
    /\ UNCHANGED connectionVars

NextSlider ==
    \/ \E p \in Positions : SetPosition(p)
    \/ \E l \in Lengths : SetLength(l)
    \/ \E t \in Types : SetType(t)
    \/ \E b \in BOOLEAN : SetSticky(b)
    \/ \E t \in Touches \cup NoTouches : SetTouch(t)

SpecSlider == Init /\ [][NextSlider]_vars

----------------------------------------------------------------------------
(* Properties                                                              *)

\* The new states of the onstatechange notifications among calls.
NewStates(calls) ==
    [i \in 1..Len(StateEvents(calls)) |-> StateEvents(calls)[i].args[1].str]

\* C1: a setState report of the current state changes no field and invokes
\* no listener, and no onstatechange notification carries the new state of
\* the notification before it.
C1_SameStateReportIsNoop ==
    [][ /\ (lastOp'.name = "setState" /\ lastOp'.args[1].str = state)
              => (UNCHANGED fields /\ notified' = <<>>)
        /\ \A i \in 1..Len(NewStates(notified')) :
              LET prev == IF i > 1 THEN NewStates(notified')[i - 1]
                          ELSE IF lastStateEvent # <<>> THEN lastStateEvent[1].str
                          ELSE "none"
              IN  NewStates(notified')[i] # prev
      ]_vars

\* C1 witness: with a listener registered and already notified of the
\* current state, that state was reported again and nothing was notified.
C1_Witness ==
    /\ lastOp.name = "setState"
    /\ lastOp.args[1].str = state
    /\ onstatechange = JsFunction
    /\ lastStateEvent # <<>>
    /\ lastStateEvent[1].str = state
    /\ notified = <<>>

\* C2: lastError is non-null exactly when the state is Error.
C2_LastErrorIffError == (lastError # JsNull) <=> (state = ERROR)

\* C3: on return from stop() the connection is disabled and Disconnected,
\* with lastError and roundTripMs cleared.
C3_StopForcesDisconnected ==
    lastOp.name = "stop" =>
        /\ enabled = FALSE
        /\ state = DISCONNECTED
        /\ lastError = JsNull
        /\ pingTimeMs = JsNull

\* The step resolves a cycle that was in flight when stop() was called.
StaleCycleResolves ==
    /\ lastOp'.name \in {"cycleSucceeds", "cycleFails"}
    /\ \E c \in inflight : c.id = lastOp'.args[1].num /\ c.stale

\* C4: a cycle in flight when stop() was called changes nothing of the
\* connection and notifies nobody when it later resolves, whether or not
\* start() was called in between.
C4_StaleCycleHasNoEffect ==
    [][ StaleCycleResolves =>
            /\ UNCHANGED <<state, lastError, pingTimeMs, responseData>>
            /\ notified' = <<>>
      ]_vars

\* C5: the result of an exchange that completes after a later-started
\* exchange has completed is discarded: the inbound value stays and
\* onresponsedata is not invoked.
C5_StaleResultDiscarded ==
    [][ (lastOp'.name = "cycleSucceeds" /\ lastOp'.args[1].num < latestDone) =>
            /\ responseData' = responseData
            /\ ResponseEvents(notified') = <<>>
      ]_vars

\* What the outbound buffer holds after setRobotData(d) returned; with any
\* other argument the call does not return, and the buffer never holds the
\* error it throws.
BufferAfter(d) ==
    CASE d = NoCall -> JsNull
      [] d = JsString("10") -> JsString("10")
      [] d = JsObject(<< <<"x", 1>> >>, FALSE) -> JsString("{\"x\":1}")
      [] d = JsUndefined -> JsUndefined
      [] OTHER -> JsError("TypeError")

\* C6: the value a cycle reads from the outbound buffer is the serialized
\* argument of the last setRobotData call before it, and it is one value,
\* not a queue of values.
C6_CycleReadsLastValue ==
    /\ lastOp.name = "beginCycle" => lastOp.args[1] = BufferAfter(lastData)
    /\ \A c \in inflight : c.sent.type \in {"null", "undefined", "string"}

\* C6 witness: a first cycle read "10"; the buffer was written again and the
\* cycle that has just begun read the serialized object written last.
C6_Witness ==
    /\ lastOp.name = "beginCycle"
    /\ lastData = JsObject(<< <<"x", 1>> >>, FALSE)
    /\ lastOp.args[1] = JsString("{\"x\":1}")
    /\ \E c \in inflight : c.id < nextId - 1 /\ c.sent = JsString("10")

\* C7: a failure reported in Connecting leads to Error with lastError the
\* reported cause, and the successful exchange reported next takes the
\* state through Connecting to Connected and clears lastError.
C7_FailureThenSuccess ==
    [][ /\ (lastOp'.name = "reportFailure" /\ state = CONNECTING)
              => (state' = ERROR /\ lastError' = lastOp'.args[1])
        /\ ( /\ lastOp'.name = "reportExchangeResult"
             /\ lastOp.name = "reportFailure"
             /\ state = ERROR
             /\ onstatechange = JsFunction
             /\ lastStateEvent = <<JsString(ERROR), JsString(CONNECTING)>> )
              => /\ NewStates(notified') = <<CONNECTING, CONNECTED>>
                 /\ state' = CONNECTED
                 /\ lastError' = JsNull
      ]_vars

\* An inbound value that is null or empty.
Absent(v) == v = JsNull \/ v = JsString("")

\* C8: a completed exchange reported with a payload and a latency stores
\* the payload, sets pingTimeMs to the latency, leaves the state Connected
\* (notifying a state change only if it was not Connected) and invokes
\* onresponsedata exactly once, with the payload.
C8_ExchangeResultApplied ==
    [][ (lastOp'.name = "reportExchangeResult" /\ ~Absent(lastOp'.args[1])) =>
            /\ responseData' = lastOp'.args[1]
            /\ pingTimeMs' = lastOp'.args[2]
            /\ state' = CONNECTED
            /\ state = CONNECTED => StateEvents(notified') = <<>>
            /\ (state # CONNECTED /\ onstatechange = JsFunction) =>
                  /\ Len(StateEvents(notified')) = 1
                  /\ StateEvents(notified')[1].args
                        = <<JsString(CONNECTED), JsString(state)>>
            /\ onresponsedata = JsFunction =>
                  /\ Len(ResponseEvents(notified')) = 1
                  /\ ResponseEvents(notified')[1].args = <<lastOp'.args[1]>>
            /\ onresponsedata # JsFunction => ResponseEvents(notified') = <<>>
      ]_vars

\* C8 witness: the exchange that returned "A" after 42 ms was reported to a
\* connection that was not Connected, both listeners registered.
C8_Witness ==
    /\ lastOp.name = "reportExchangeResult"
    /\ lastOp.args = <<JsString("A"), JsNumber(42)>>
    /\ responseData = JsString("A")
    /\ pingTimeMs = JsNumber(42)
    /\ state = CONNECTED
    /\ Len(StateEvents(notified)) = 1
    /\ Len(ResponseEvents(notified)) = 1

\* C9: whenever the inbound value is absent pingTimeMs is null, between
\* operations and while a listener runs, and pingTimeMs takes a new
\* non-null value only in the report of a completed exchange that delivered
\* a payload.
C9_PingOnlyWithInboundValue ==
    /\ [](Absent(responseData) => pingTimeMs = JsNull)
    /\ [](\A i \in 1..Len(notified) :
            Absent(notified[i].seen.responseData)
                => notified[i].seen.pingTimeMs = JsNull)
    /\ [][ (pingTimeMs' # JsNull /\ pingTimeMs' # pingTimeMs) =>
              /\ lastOp'.name = "reportExchangeResult"
              /\ ~Absent(lastOp'.args[1])
              /\ pingTimeMs' = lastOp'.args[2]
         ]_vars

\* C9 witness: an exchange was reported with an empty payload; the latency
\* measured for it is not kept.
C9_Witness ==
    /\ lastOp.name = "reportExchangeResult"
    /\ lastOp.args[1] = JsString("")
    /\ responseData = JsString("")
    /\ pingTimeMs = JsNull

\* C10: the state changes only along the defined transitions: Disconnected
\* to Connecting by start(), Connecting to Connected or Error, Connected to
\* Error, Error to Connecting, and anything to Disconnected by stop().
C10_DefinedTransitionsOnly ==
    [][ state' # state =>
            \/ state = DISCONNECTED /\ state' = CONNECTING /\ lastOp'.name = "start"
            \/ state = CONNECTING /\ state' \in {CONNECTED, ERROR}
            \/ state = CONNECTED /\ state' = ERROR
            \/ state = ERROR /\ state' = CONNECTING
            \/ state' = DISCONNECTED /\ lastOp'.name = "stop"
      ]_vars


\* C11: start() on a disabled, Disconnected connection enables it and moves
\* the state to Connecting, notifying (Connecting, Disconnected); start() on
\* an enabled connection changes nothing.
C11_StartBeginsConnecting ==
    [][ lastOp'.name = "start" =>
            /\ (~enabled /\ state = DISCONNECTED) =>
                  /\ enabled' = TRUE
                  /\ state' = CONNECTING
                  /\ onstatechange = JsFunction =>
                        NewStates(notified') = <<CONNECTING>>
            /\ enabled => (UNCHANGED fields /\ notified' = <<>>)
      ]_vars


\* An object JSON.stringify cannot serialize.
Unserializable(v) == v.type = "object" /\ v.cyclic

\* C12: setRobotData called with an object that cannot be serialized throws
\* to its caller, in the call itself, and leaves the connection as it was.
C12_SerializationErrorThrown ==
    [][ (lastOp'.name = "setRobotData" /\ Unserializable(lastOp'.args[1])) =>
            /\ lastOp'.thrown = JsError("TypeError")
            /\ UNCHANGED fields
            /\ notified' = <<>>
      ]_vars

\* C12 witness: the buffer held "10", setRobotData was called with a cyclic
\* object and threw.
C12_Witness ==
    /\ lastOp.name = "setRobotData"
    /\ Unserializable(lastOp.args[1])
    /\ lastOp.thrown # JsNull
    /\ dataPacket = JsString("10")

\* C13: after setRobotData(v) has returned, the buffer is v itself when v is
\* a string and the JSON text of v when v is an object, whatever it held.
C13_BufferHoldsArgument ==
    (lastOp.name = "setRobotData" /\ lastOp.thrown = JsNull) =>
        /\ lastOp.args[1].type = "string" => dataPacket = lastOp.args[1]
        /\ lastOp.args[1] = JsObject(<< <<"x", 1>> >>, FALSE)
              => dataPacket = JsString("{\"x\":1}")

\* C13 witness: the latest cycle read "10" from the buffer, and the object
\* written since has replaced it by its JSON text.
C13_Witness ==
    /\ lastOp.name = "setRobotData"
    /\ lastOp.args[1] = JsObject(<< <<"x", 1>> >>, FALSE)
    /\ dataPacket = JsString("{\"x\":1}")
    /\ \E c \in inflight : c.id = nextId - 1 /\ c.sent = JsString("10")


\* The old states of the onstatechange notifications among calls.
OldStates(calls) ==
    [i \in 1..Len(StateEvents(calls)) |-> StateEvents(calls)[i].args[2].str]

\* C14: every notification is (newState, oldState) with oldState different
\* from newState and equal to the newState of the notification before it,
\* or to Disconnected when it is the first one.
C14_ChainFromDisconnected ==
    [][ \A i \in 1..Len(StateEvents(notified')) :
            /\ OldStates(notified')[i] # NewStates(notified')[i]
            /\ OldStates(notified')[i] =
                  IF i > 1 THEN NewStates(notified')[i - 1]
                  ELSE IF lastStateEvent # <<>> THEN lastStateEvent[1].str
                  ELSE DISCONNECTED
      ]_vars

\* C14 as amended: every notification is (newState, oldState) with oldState
\* different from newState and equal to the newState of the notification
\* before it, or, when it is the first one the listener gets, to the state
\* the connection had since the listener was registered; the last
\* notification of an operation announces the state the operation leaves.
C14_ChainFromRegistration ==
    [][ /\ \A i \in 1..Len(StateEvents(notified')) :
              /\ OldStates(notified')[i] # NewStates(notified')[i]
              /\ OldStates(notified')[i] =
                    IF i > 1 THEN NewStates(notified')[i - 1]
                    ELSE IF lastStateEvent # <<>> THEN lastStateEvent[1].str
                    ELSE state
        /\ StateEvents(notified') # <<>> =>
              NewStates(notified')[Len(StateEvents(notified'))] = state'
        /\ (onstatechange = JsFunction /\ lastStateEvent # <<>>) =>
              lastStateEvent[1].str = state
      ]_vars

\* C14 witness: the listener, told of Connected before, is told of the
\* change from Connected to Error.
C14_Witness ==
    /\ onstatechange = JsFunction
    /\ Len(StateEvents(notified)) = 1
    /\ StateEvents(notified)[1].args = <<JsString(ERROR), JsString(CONNECTED)>>
    /\ state = ERROR


\* C15: setRobotData writes the outbound buffer only: state, enabled,
\* lastError, pingTimeMs, the inbound value and the listener slots are as
\* before, and no listener is invoked.
C15_SetRobotDataFrame ==
    [][ lastOp'.name = "setRobotData" =>
            /\ UNCHANGED <<state, enabled, lastError, pingTimeMs, responseData,
                           onstatechange, onresponsedata>>
            /\ notified' = <<>>
      ]_vars

\* C15 witness: setRobotData stored "10" on a Connected connection that has
\* an inbound value, a latency and both listeners.
C15_Witness ==
    /\ lastOp.name = "setRobotData"
    /\ dataPacket = JsString("10")
    /\ state = CONNECTED
    /\ responseData = JsString("A")
    /\ pingTimeMs = JsNumber(42)
    /\ onstatechange = JsFunction
    /\ onresponsedata = JsFunction

\* C16: getResponseData returns the value the latest setResponseData call
\* stored, null when there was none, changes no field and invokes no
\* listener.
C16_GetReturnsLastStored ==
    [][ lastOp'.name = "getResponseData" =>
            /\ lastOp'.returned = lastStored
            /\ lastOp'.thrown = JsNull
            /\ UNCHANGED fields
            /\ notified' = <<>>
      ]_vars

\* C16 witness: "A" was stored and getResponseData has returned it, with a
\* listener registered.
C16_Witness ==
    /\ lastOp.name = "getResponseData"
    /\ lastOp.returned = JsString("A")
    /\ lastStored = JsString("A")
    /\ onresponsedata = JsFunction


\* The connection state held by an object: its fields without the record of
\* the call in progress.
FieldsOf(o) ==
    [state |-> o.state, enabled |-> o.enabled, lastError |-> o.lastError,
     pingTimeMs |-> o.pingTimeMs, onstatechange |-> o.onstatechange,
     onresponsedata |-> o.onresponsedata, responseData |-> o.responseData,
     dataPacket |-> o.dataPacket]

\* C17: stop is idempotent: from every reachable state a second stop leaves
\* the connection as the first one left it, invokes no listener and throws
\* nothing.
C17_StopIdempotent ==
    LET once  == stop(this)
        twice == stop(once)
    IN  /\ FieldsOf(twice) = FieldsOf(once)
        /\ twice.calls = <<>>
        /\ twice.thrown = JsNull

\* C17 witness: stop has run on a started connection that was Connected and
\* had a state listener.
C17_Witness ==
    /\ lastOp.name = "stop"
    /\ ~enabled
    /\ state = CONNECTED
    /\ onstatechange = JsFunction
    /\ FieldsOf(stop(this)) = FieldsOf(this)


\* C19: while a listener runs the connection already shows the change:
\* onstatechange(newState, oldState) reads state = newState, and
\* onresponsedata(data) reads responseData = data, with pingTimeMs null when
\* data is absent.
C19_ListenerSeesChange ==
    \A i \in 1..Len(notified) :
        LET c == notified[i]
        IN  /\ c.fn = "onstatechange" => c.seen.state = c.args[1].str
            /\ c.fn = "onresponsedata" =>
                  /\ c.seen.responseData = c.args[1]
                  /\ Absent(c.args[1]) => c.seen.pingTimeMs = JsNull

\* C19 witness: one operation has notified a change to Connected and then an
\* absent payload.
C19_Witness ==
    /\ Len(notified) = 2
    /\ notified[1].fn = "onstatechange"
    /\ notified[1].args[1] = JsString(CONNECTED)
    /\ notified[2].fn = "onresponsedata"
    /\ notified[2].args[1] = JsString("")
    /\ lastStateEvent # <<>>

\* C20: every setResponseData call stores its argument (and clears
\* pingTimeMs when it is absent) and invokes a registered onresponsedata
\* listener exactly once with it, whatever the previous value was; with no
\* listener registered setResponseData and setState still update the
\* fields, and invoke nothing.
C20_ResponseNotDeduplicated ==
    /\ lastOp.name = "setResponseData" =>
          /\ responseData = lastOp.args[1]
          /\ Absent(lastOp.args[1]) => pingTimeMs = JsNull
          /\ IF onresponsedata = JsFunction
             THEN /\ Len(notified) = 1
                  /\ notified[1].fn = "onresponsedata"
                  /\ notified[1].args = <<lastOp.args[1]>>
             ELSE notified = <<>>
    /\ (lastOp.name = "setState" /\ onstatechange = JsNull) =>
          /\ state = lastOp.args[1].str
          /\ notified = <<>>

\* C20 witness: setResponseData was called with the empty string on a
\* Connected connection, and the listener was invoked once.
C20_Witness ==
    /\ lastOp.name = "setResponseData"
    /\ lastOp.args = <<JsString("")>>
    /\ onresponsedata = JsFunction
    /\ Len(notified) = 1
    /\ notified[1].seen.responseData = JsString("")
    /\ state = CONNECTED


\* C18: a release (setTouch with no touch) keeps the value of a sticky
\* slider and resets the value of a non-sticky one to 0; so a slider that
\* was non-sticky at every touch update and release reads 0 whenever it is
\* not touched.
C18_ReleaseResetsNonSticky ==
    /\ \A none \in NoTouches :
          setTouch(slider, none).value =
              IF slider.sticky THEN slider.value ELSE Zero
    /\ (~slider.sticky /\ ~stickyUsed /\ Falsy(slider.touch)) =>
          slider.value = Zero

\* C18 witness: a non-sticky slider that read 1/3 under the finger has been
\* released and reads 0.
C18_Witness ==
    /\ ~slider.sticky
    /\ ~stickyUsed
    /\ Falsy(slider.touch)
    /\ valueAtRelease = Divide(1, 3)
    /\ slider.value = Zero

=============================================================================
